---------------------------- MODULE Spec2Model ----------------------------
(***************************************************************************)
(* State-machine model of project/02-asvspoof/lfcc-restnet-ocsoftmax/      *)
(* model.py: the Model class (normalization, protocol table, front end,    *)
(* ensemble embedding, angular scoring, forward pass) and the Loss wrapper.*)
(*                                                                         *)
(* Code indices are 0-based; TLA+ sequences are 1-based, so row r of a     *)
(* tensor is element r + 1 of the sequence that models it.                 *)
(***************************************************************************)
EXTENDS Integers, Sequences, FiniteSets

\* ------------------------------------------------------------------------
\* Bounds of the model (scaled-down stand-ins for sizes the code leaves open)
\* ------------------------------------------------------------------------
\* largest number of sub-models (length of frame_lens / frame_hops)
MaxMembers == 2
\* largest batch size handed to _front_end when it is exercised alone
MaxBatch == 2
\* largest batch size handed to forward
MaxFwdBatch == 2
\* largest raw waveform length (in samples)
MaxWavLen == 5
\* number of samples kept by truncation (10 * 16 * 750 in the code)
TruncSamples == 3
\* largest number of rows of the protocol file
MaxRows == 2
\* largest input / output dimension of the normalization statistics
MaxDim == 2
\* largest value of a normalized tensor entry
MaxVal == 2

VARIABLES
    frame_hops,        \* self.frame_hops
    protocol_file,     \* the rows of the protocol listing read at construction
    protocol_parser,   \* self.protocol_parser (dict filename -> 0/1)
    training,          \* self.training (torch_nn.Module mode flag)
    mean_std,          \* the mean_std argument of the constructor
    input_mean, input_std, output_mean, output_std,
    pc,                \* position of the forward pass / of the last call
    fileinfo,          \* the batch metadata of the current forward pass
    feature_vec,       \* result of _compute_embedding
    a_softmax_act,     \* result of _compute_score: <<x_cos_val, x_phi_val>>
    target,            \* result of _get_target
    outputs,           \* value returned by forward
    stdout,            \* lines printed by the current forward pass
    calls,             \* helper calls made by the current forward pass, in order
    loss,              \* value returned by Loss.compute
    loss_target,       \* the target argument of the last Loss.compute call
    fe_idx, fe_len,    \* arguments idx and datalength of the direct _front_end call
    x_sp_amp_buff,     \* value returned by the direct _front_end call
    norm_op, norm_arg, norm_out   \* last normalization call and its result

vars == <<frame_hops, protocol_file, protocol_parser, training,
          mean_std, input_mean, input_std, output_mean, output_std,
          pc, fileinfo, feature_vec, a_softmax_act, target, outputs, stdout,
          calls, loss, loss_target, fe_idx, fe_len, x_sp_amp_buff,
          norm_op, norm_arg, norm_out>>

modelVars == <<frame_hops, protocol_file, protocol_parser>>
statVars == <<mean_std, input_mean, input_std, output_mean, output_std>>
passVars == <<pc, fileinfo, feature_vec, a_softmax_act, target, outputs,
              stdout, calls>>
lossVars == <<loss, loss_target>>
feVars == <<fe_idx, fe_len, x_sp_amp_buff>>
normVars == <<norm_op, norm_arg, norm_out>>

\* ------------------------------------------------------------------------
\* Helpers on sequences, written as the tensor operations the code uses
\* ------------------------------------------------------------------------
Min(a, b) == IF a < b THEN a ELSE b

Max(a, b) == IF a > b THEN a ELSE b

RECURSIVE MaxOf(_)
MaxOf(s) == IF s = <<>> THEN 0 ELSE Max(Head(s), MaxOf(Tail(s)))

\* Python slice s[a:b] for 0 <= a, clamped to the length of s
Slice(s, a, b) == SubSeq(s, a + 1, Min(b, Len(s)))

\* tensor.repeat(1, rep) along the frame axis
RECURSIVE Repeat(_, _)
Repeat(s, rep) == IF rep <= 0 THEN <<>> ELSE s \o Repeat(s, rep - 1)

\* int(np.ceil(a / b)) for a >= 0, b > 0
CeilDiv(a, b) == (a + b - 1) \div b

\* buf[s:e] = rows
WriteRows(buf, s, rows) ==
    [k \in 1..Len(buf) |->
        IF k > s /\ k <= s + Len(rows) THEN rows[k - s] ELSE buf[k]]

\* ------------------------------------------------------------------------
\* Construction (Model.__init__)
\* ------------------------------------------------------------------------
\* self.frame_hops for an ensemble of n members: member idx has hop idx + 1
HopsOf(n) == [k \in 1..n |-> k]

\* self.v_submodels = len(self.frame_lens)
v_submodels == Len(frame_hops)

\* self.v_truncate_lens = [10 * 16 * 750 // x for x in self.frame_hops]
v_truncate_lens == [k \in 1..Len(frame_hops) |-> TruncSamples \div frame_hops[k]]

\* mean_std = None
None == <<>>

\* torch.zeros([dim]) / torch.ones([dim])
Zeros(dim) == [k \in 1..dim |-> 0]

Ones(dim) == [k \in 1..dim |-> 1]

\* prepare_mean_std(in_dim, out_dim, args, data_mean_std); ok is FALSE when
\* the call ends in sys.exit(1)
PrepareMeanStd(in_dim, out_dim, data_mean_std) ==
    IF data_mean_std # None
    THEN [ok |-> /\ Len(data_mean_std[1]) = in_dim
                 /\ Len(data_mean_std[2]) = in_dim
                 /\ Len(data_mean_std[3]) = out_dim
                 /\ Len(data_mean_std[4]) = out_dim,
          in_m |-> data_mean_std[1], in_s |-> data_mean_std[2],
          out_m |-> data_mean_std[3], out_s |-> data_mean_std[4]]
    ELSE [ok |-> TRUE,
          in_m |-> Zeros(in_dim), in_s |-> Zeros(in_dim),
          out_m |-> Ones(out_dim), out_s |-> Ones(out_dim)]

\* the file names and label strings a protocol listing may hold
FileNames == {"f1", "f2"}

LabelStrings == {"bonafide", "spoof"}

\* a row of the listing: row[1] (second column) is the file name, row[-1]
\* the label string
ProtocolRows == {<<"spk", n, l>> : n \in FileNames, l \in LabelStrings}

\* the listings of at most n rows
RECURSIVE ProtocolFiles(_)
ProtocolFiles(n) ==
    IF n = 0 THEN {<<>>}
    ELSE LET shorter == ProtocolFiles(n - 1)
         IN  shorter \cup {Append(s, r) : s \in {t \in shorter : Len(t) = n - 1},
                                           r \in ProtocolRows}

\* the loop of _protocol_parse over the remaining rows
RECURSIVE ProtocolParseFrom(_, _)
ProtocolParseFrom(data_buffer, rows) ==
    IF rows = <<>> THEN data_buffer
    ELSE LET row == Head(rows)
             v == IF row[Len(row)] = "bonafide" THEN 1 ELSE 0
         IN  ProtocolParseFrom(
                 [n \in (DOMAIN data_buffer) \cup {row[2]} |->
                     IF n = row[2] THEN v ELSE data_buffer[n]],
                 Tail(rows))

\* _protocol_parse(protocol_filepath)
ProtocolParse(rows) == ProtocolParseFrom([n \in {} |-> 0], rows)

\* ------------------------------------------------------------------------
\* Feature Framer (Model._front_end)
\* ------------------------------------------------------------------------
\* an all-zero frame of torch.zeros
ZeroFrame == [utt |-> 0, t |-> -1]

\* the external LFCC extractor on a padded batch of wav_len samples: row b
\* has wav_len // hop + 1 frames, frame t of row b is named [utt, t]
LFCC(idx, batch, wav_len) ==
    [b \in 1..batch |->
        [j \in 1..(wav_len \div frame_hops[idx + 1] + 1) |->
            [utt |-> b, t |-> j - 1]]]

\* the draw with its upper end off by two
RandPosOff(d) == IF d > 0 THEN 0..(d + 1) ELSE {0}

\* floor(torch.rand([1]) * d) for the uniform draw in [0, 1)
RandPos(d) == IF d > 0 THEN 0..(d - 1) ELSE {0}

\* the rows of a failed call
NoRows == <<>>

\* one iteration of the per-file loop, without tiling: the short row is
\* left zero-padded in the buffer
FrontEndRowPad(row, true_frame_num, trunc_len, pos) ==
    IF true_frame_num > trunc_len
    THEN [err |-> "none", val |-> Slice(row, pos, trunc_len + pos)]
    ELSE IF true_frame_num = 0
    THEN [err |-> "ZeroDivisionError", val |-> NoRows]
    ELSE [err |-> "none",
          val |-> [k \in 1..trunc_len |->
                     IF k <= true_frame_num THEN row[k] ELSE ZeroFrame]]

\* one iteration of the per-file loop (lines 215-226): the value assigned to
\* x_sp_amp_buff[fileidx], or the exception the iteration raises
FrontEndRow(row, true_frame_num, trunc_len, pos) ==
    IF true_frame_num > trunc_len
    THEN [err |-> "none", val |-> Slice(row, pos, trunc_len + pos)]
    ELSE IF true_frame_num = 0
    THEN [err |-> "ZeroDivisionError", val |-> NoRows]
    ELSE LET rep == CeilDiv(trunc_len, true_frame_num)
             tmp == Repeat(Slice(row, 0, true_frame_num), rep)
         IN  [err |-> "none", val |-> Slice(tmp, 0, trunc_len)]

\* datalength[fileidx] // fs
TrueFrameNum(idx, datalength, b) == datalength[b] \div frame_hops[idx + 1]

\* the random offsets the per-file loop may draw for its first n rows
RECURSIVE PosSeqs(_, _, _)
PosSeqs(idx, datalength, n) ==
    IF n = 0 THEN {<<>>}
    ELSE {Append(s, x) :
            s \in PosSeqs(idx, datalength, n - 1),
            x \in RandPos(TrueFrameNum(idx, datalength, n)
                          - v_truncate_lens[idx + 1])}

\* the random offsets one call may draw, one per row
PosChoices(idx, datalength) == PosSeqs(idx, datalength, Len(datalength))

\* _front_end(wav, idx, trunc_len, datalength) with offsets pos: the framed
\* buffer, or the first exception raised by the per-file loop
FrontEnd(idx, datalength, pos) ==
    LET batch == Len(datalength)
        trunc_len == v_truncate_lens[idx + 1]
        x_sp_amp == LFCC(idx, batch, MaxOf(datalength))
        rows == [b \in 1..batch |->
                    FrontEndRow(x_sp_amp[b], TrueFrameNum(idx, datalength, b),
                                trunc_len, pos[b])]
        \* x_sp_amp_buff[fileidx] = tmp needs tmp to have trunc_len frames
        errOf(b) == IF rows[b].err # "none" THEN rows[b].err
                    ELSE IF Len(rows[b].val) # trunc_len THEN "RuntimeError"
                    ELSE "none"
        bad == {b \in 1..batch : errOf(b) # "none"}
    IN  IF bad = {}
        THEN [err |-> "none", val |-> [b \in 1..batch |-> rows[b].val]]
        ELSE [err |-> errOf(CHOOSE b \in bad : \A c \in bad : b <= c),
              val |-> NoRows]

\* ------------------------------------------------------------------------
\* Direct calls of the Feature Framer
\* ------------------------------------------------------------------------
\* the datalength lists of at most n rows with lengths in 0..MaxWavLen
RECURSIVE LengthLists(_)
LengthLists(n) ==
    IF n = 0 THEN {<<>>}
    ELSE LET shorter == LengthLists(n - 1)
         IN  shorter \cup {Append(s, x) : s \in {t \in shorter : Len(t) = n - 1},
                                           x \in 0..MaxWavLen}

\* the call _front_end(wav, fe_idx, trunc_len, fe_len)
FrontEndCall ==
    /\ pc = "idle"
    /\ \E pos \in PosChoices(fe_idx, fe_len) :
         LET r == FrontEnd(fe_idx, fe_len, pos)
         IN  /\ pc' = (IF r.err = "none" THEN "framed" ELSE r.err)
             /\ x_sp_amp_buff' = r.val
    /\ UNCHANGED <<modelVars, training, statVars, fileinfo, feature_vec,
                   a_softmax_act, target, outputs, stdout, calls, lossVars,
                   fe_idx, fe_len, normVars>>

\* ------------------------------------------------------------------------
\* Ensemble Embedding Computer (Model._compute_embedding)
\* ------------------------------------------------------------------------
\* a row of torch.zeros in the embedding buffer
ZeroEmb == [member |-> -1, input |-> <<>>]

\* the external backbone of member idx on a framed batch: one embedding per
\* row, a token naming the member and the framed row it was computed from
ResNet(idx, x_sp_amp) ==
    [b \in 1..Len(x_sp_amp) |-> [member |-> idx, input |-> x_sp_amp[b]]]

\* the random offsets of a whole _compute_embedding call, one list per member
RECURSIVE PosLists(_, _)
PosLists(datalength, n) ==
    IF n = 0 THEN {<<>>}
    ELSE {Append(s, x) : s \in PosLists(datalength, n - 1),
                         x \in PosChoices(n - 1, datalength)}

\* the first row written by member idx, rows interleaved by utterance
RowStartInterleaved(idx, batch_size) == idx

\* the first row written by member idx: output_score[idx * batch_size : ...]
RowStart(idx, batch_size) == idx * batch_size

\* the loop over the sub-models from member idx on (lines 251-263)
RECURSIVE EmbeddingLoop(_, _, _, _)
EmbeddingLoop(output_score, idx, datalength, pos) ==
    IF idx = v_submodels THEN [err |-> "none", val |-> output_score]
    ELSE LET fe == FrontEnd(idx, datalength, pos[idx + 1])
             batch_size == Len(datalength)
         IN  IF fe.err # "none" THEN [err |-> fe.err, val |-> NoRows]
             ELSE EmbeddingLoop(
                      WriteRows(output_score, RowStart(idx, batch_size),
                                ResNet(idx, fe.val)),
                      idx + 1, datalength, pos)

\* _compute_embedding(x, datalength)
ComputeEmbeddingOf(datalength, pos) ==
    EmbeddingLoop([k \in 1..(Len(datalength) * v_submodels) |-> ZeroEmb],
                  0, datalength, pos)

\* ------------------------------------------------------------------------
\* Angular Scorer (Model._compute_score)
\* ------------------------------------------------------------------------
\* a row of torch.zeros in a score buffer
ZeroScore == [member |-> -1, out |-> 0, angle |-> FALSE, emb |-> ZeroEmb]

\* the external angular projection of member idx: output out (1 or 2) for
\* one embedding row, a token naming member, flag and embedding
OCAngleLayer(idx, rows, angle, out) ==
    [k \in 1..Len(rows) |->
        [member |-> idx, out |-> out, angle |-> angle, emb |-> rows[k]]]

\* the loop over the sub-models from member idx on (lines 277-282)
RECURSIVE ScoreLoop(_, _, _, _)
ScoreLoop(bufs, idx, feature, angle) ==
    IF idx = v_submodels THEN bufs
    ELSE LET batch_size == Len(feature) \div v_submodels
             s_idx == idx * batch_size
             e_idx == idx * batch_size + batch_size
             rows == Slice(feature, s_idx, e_idx)
         IN  ScoreLoop(
                 <<WriteRows(bufs[1], s_idx, OCAngleLayer(idx, rows, angle, 1)),
                   WriteRows(bufs[2], s_idx, OCAngleLayer(idx, rows, angle, 2))>>,
                 idx + 1, feature, angle)

\* _compute_score(feature_vec, angle)
ComputeScoreOf(feature, angle) ==
    LET zeros == [k \in 1..Len(feature) |-> ZeroScore]
    IN  ScoreLoop(<<zeros, zeros>>, 0, feature, angle)

\* ------------------------------------------------------------------------
\* Target Resolver (Model._get_target)
\* ------------------------------------------------------------------------
\* the resolver going on with label 0 for a file name the table lacks
GetTargetDefault(filenames) ==
    [err |-> "none",
     val |-> [k \in 1..Len(filenames) |->
                IF filenames[k] \in DOMAIN protocol_parser
                THEN protocol_parser[filenames[k]] ELSE 0]]

\* _get_target(filenames): the labels, or the KeyError branch (sys.exit(1))
GetTarget(filenames) ==
    IF \A k \in 1..Len(filenames) : filenames[k] \in DOMAIN protocol_parser
    THEN [err |-> "none",
          val |-> [k \in 1..Len(filenames) |-> protocol_parser[filenames[k]]]]
    ELSE [err |-> "KeyError", val |-> <<>>]

\* ------------------------------------------------------------------------
\* Pipeline Orchestrator (Model.forward) and the mode switch
\* ------------------------------------------------------------------------
\* the raw lengths of the utterances handed to forward: too short for one
\* frame, one frame of the first member only, longer than the truncation
FwdLengths == {0, 1, TruncSamples + 1}

\* the fileinfo lists of at most n utterances
RECURSIVE FileInfos(_)
FileInfos(n) ==
    IF n = 0 THEN {<<>>}
    ELSE LET shorter == FileInfos(n - 1)
         IN  shorter \cup
             {Append(s, [name |-> f, length |-> l]) :
                 s \in {t \in shorter : Len(t) = n - 1},
                 f \in FileNames, l \in FwdLengths}

\* [nii_seq_tk.parse_filename(y) for y in fileinfo]
Filenames(info) == [k \in 1..Len(info) |-> info[k].name]

\* [nii_seq_tk.parse_length(y) for y in fileinfo]
Datalength(info) == [k \in 1..Len(info) |-> info[k].length]

\* tensor.mean(): the arithmetic mean of the entries, an order-independent
\* token naming how many and which values were averaged
Mean(rows) == [n |-> Len(rows), terms |-> {rows[k] : k \in 1..Len(rows)}]

\* forward returns None
NoOutputs == <<>>

\* no call in progress
Resting == pc \in {"idle", "returned", "trained"}

\* torch_nn.Module.train(): self.training = True
Train ==
    /\ Resting
    /\ ~training
    /\ training' = TRUE
    /\ UNCHANGED <<modelVars, statVars, passVars, lossVars, feVars, normVars>>

\* torch_nn.Module.eval(): self.training = False
Eval ==
    /\ Resting
    /\ training
    /\ training' = FALSE
    /\ UNCHANGED <<modelVars, statVars, passVars, lossVars, feVars, normVars>>

\* forward(x, fileinfo) is entered: lines 302-303
Forward(info) ==
    /\ Resting
    /\ pc' = "embedding"
    /\ fileinfo' = info
    /\ feature_vec' = <<>>
    /\ a_softmax_act' = <<>>
    /\ target' = <<>>
    /\ outputs' = NoOutputs
    /\ stdout' = <<>>
    /\ calls' = <<>>
    /\ loss' = <<>>
    /\ loss_target' = <<>>
    /\ UNCHANGED <<modelVars, training, statVars, feVars, normVars>>

\* feature_vec = self._compute_embedding(x, datalength): lines 307 and 318
ComputeEmbedding ==
    /\ pc = "embedding"
    /\ \E pos \in PosLists(Datalength(fileinfo), v_submodels) :
         LET r == ComputeEmbeddingOf(Datalength(fileinfo), pos)
         IN  /\ pc' = (IF r.err = "none" THEN "score" ELSE r.err)
             /\ feature_vec' = r.val
    /\ calls' = Append(calls, "_compute_embedding")
    /\ UNCHANGED <<modelVars, training, statVars, fileinfo, a_softmax_act,
                   target, outputs, stdout, lossVars, feVars, normVars>>

\* the angle argument of the pass, always True
AngleFlagAlways(mode) == TRUE

\* the angle argument of the pass: the default False at line 308, True at 319
AngleFlag(mode) == ~mode

\* self._compute_score(feature_vec) / self._compute_score(feature_vec, True)
ComputeScore ==
    /\ pc = "score"
    /\ a_softmax_act' = ComputeScoreOf(feature_vec, AngleFlag(training))
    /\ pc' = "target"
    /\ calls' = Append(calls, "_compute_score")
    /\ UNCHANGED <<modelVars, training, statVars, fileinfo, feature_vec,
                   target, outputs, stdout, lossVars, feVars, normVars>>

\* the line printed by the KeyError branch of _get_target
ErrorLine(filenames) == [kind |-> "Cannot find target data", names |-> filenames]

\* the target vector repeated once per row instead of once per member
TargetVecPerRow(tgt) ==
    LET n == Len(tgt)
    IN  [k \in 1..(n * v_submodels) |-> tgt[((k - 1) \div v_submodels) + 1]]

\* torch.tensor(target).long().repeat(self.v_submodels)
TargetVec(tgt) == Repeat(tgt, v_submodels)

\* the rest of the training branch: lines 311-315
TrainingReturn ==
    /\ pc = "target"
    /\ training
    /\ calls' = Append(calls, "_get_target")
    /\ LET r == GetTarget(Filenames(fileinfo))
       IN  IF r.err = "none"
           THEN /\ target' = r.val
                /\ outputs' = <<a_softmax_act, TargetVec(r.val), TRUE>>
                /\ pc' = "returned"
                /\ UNCHANGED stdout
           ELSE /\ stdout' = Append(stdout, ErrorLine(Filenames(fileinfo)))
                /\ pc' = "exited"
                /\ UNCHANGED <<target, outputs>>
    /\ UNCHANGED <<modelVars, training, statVars, fileinfo, feature_vec,
                   a_softmax_act, lossVars, feVars, normVars>>

\* the rest of the inference branch: lines 321-325
InferenceReturn ==
    /\ pc = "target"
    /\ ~training
    /\ calls' = Append(calls, "_get_target")
    /\ LET r == GetTarget(Filenames(fileinfo))
           score == a_softmax_act[1]
       IN  IF r.err = "none"
           THEN /\ target' = r.val
                /\ stdout' = Append(stdout,
                                    [kind |-> "Output",
                                     filename |-> Filenames(fileinfo)[1],
                                     label |-> r.val[1],
                                     score |-> Mean(score)])
                /\ pc' = "returned"
           ELSE /\ stdout' = Append(stdout, ErrorLine(Filenames(fileinfo)))
                /\ pc' = "exited"
                /\ UNCHANGED target
    /\ outputs' = NoOutputs
    /\ UNCHANGED <<modelVars, training, statVars, fileinfo, feature_vec,
                   a_softmax_act, lossVars, feVars, normVars>>

\* ------------------------------------------------------------------------
\* Loss Wrapper (Loss.compute)
\* ------------------------------------------------------------------------
\* the external margin-based loss on a score pair and integer labels, a token
\* naming both arguments
OCSoftmaxWithLoss(score_pair, labels) == [scores |-> score_pair, labels |-> labels]

\* the loss evaluated against the target argument
LossOfTarget(outs, tgt) == OCSoftmaxWithLoss(outs[1], tgt)

\* compute(outputs, target): self.m_loss(outputs[0], outputs[1])
LossOf(outs, tgt) == OCSoftmaxWithLoss(outs[1], outs[2])

\* the label vectors the training loop may hand to compute as target
TargetArgs(n) == {[k \in 1..n |-> v] : v \in {0, 1}}

\* loss.compute(outputs, target) on the outputs of a training pass
LossCompute(tgt) ==
    /\ pc = "returned"
    /\ outputs # NoOutputs
    /\ tgt \in TargetArgs(Len(outputs[2]))
    /\ loss' = LossOf(outputs, tgt)
    /\ loss_target' = tgt
    /\ pc' = "trained"
    /\ UNCHANGED <<modelVars, training, statVars, fileinfo, feature_vec,
                   a_softmax_act, target, outputs, stdout, calls, feVars,
                   normVars>>

\* ------------------------------------------------------------------------
\* Normalization Layer
\* ------------------------------------------------------------------------
\* an elementwise quotient num / den of the tensor arithmetic; den = 0 is a
\* division by zero (inf or nan in the tensor)
Quot(num, den) == [num |-> num, den |-> den]

\* normalize_input(x) = (x - self.input_mean) / self.input_std
NormalizeInput(x) ==
    [k \in 1..Len(x) |-> Quot(x[k] - input_mean[k], input_std[k])]

\* normalize_target(y) = (y - self.output_mean) / self.output_std
NormalizeTarget(y) ==
    [k \in 1..Len(y) |-> Quot(y[k] - output_mean[k], output_std[k])]

\* denormalize_output(y) = y * self.output_std + self.output_mean
DenormalizeOutput(y) ==
    [k \in 1..Len(y) |-> Quot(y[k] * output_std[k] + output_mean[k], 1)]

\* the tensors of dimension dim handed to the normalization calls
Tensors(dim) == [1..dim -> 0..MaxVal]

\* the statistics vectors a caller may supply
StatVecs(vals) == UNION {[1..d -> vals] : d \in 1..MaxDim}

NormalizeInputCall(x) ==
    /\ norm_op' = "normalize_input"
    /\ norm_arg' = x
    /\ norm_out' = NormalizeInput(x)
    /\ UNCHANGED <<modelVars, training, statVars, passVars, lossVars, feVars>>

NormalizeTargetCall(y) ==
    /\ norm_op' = "normalize_target"
    /\ norm_arg' = y
    /\ norm_out' = NormalizeTarget(y)
    /\ UNCHANGED <<modelVars, training, statVars, passVars, lossVars, feVars>>

DenormalizeOutputCall(y) ==
    /\ norm_op' = "denormalize_output"
    /\ norm_arg' = y
    /\ norm_out' = DenormalizeOutput(y)
    /\ UNCHANGED <<modelVars, training, statVars, passVars, lossVars, feVars>>

\* ------------------------------------------------------------------------
\* Initial states and specifications
\* ------------------------------------------------------------------------
\* Model.__init__(in_dim, out_dim, args, mean_std) that ran to its end, for
\* an ensemble with hops hops and a protocol listing rows
Constructed(hops, rows, in_dim, out_dim, ms) ==
    LET st == PrepareMeanStd(in_dim, out_dim, ms)
    IN  /\ st.ok
        /\ frame_hops = hops
        /\ protocol_file = rows
        /\ protocol_parser = ProtocolParse(rows)
        /\ training = TRUE
        /\ mean_std = ms
        /\ input_mean = st.in_m
        /\ input_std = st.in_s
        /\ output_mean = st.out_m
        /\ output_std = st.out_s

\* nothing has been called yet
Untouched ==
    /\ pc = "idle"
    /\ fileinfo = <<>>
    /\ feature_vec = <<>>
    /\ a_softmax_act = <<>>
    /\ target = <<>>
    /\ outputs = NoOutputs
    /\ stdout = <<>>
    /\ calls = <<>>
    /\ loss = <<>>
    /\ loss_target = <<>>
    /\ x_sp_amp_buff = NoRows
    /\ norm_op = "none"
    /\ norm_arg = <<>>
    /\ norm_out = <<>>

\* forward passes, mode switches and loss evaluations
Init ==
    /\ \E n \in 1..MaxMembers, rows \in ProtocolFiles(MaxRows) :
         Constructed(HopsOf(n), rows, 1, 1, None)
    /\ Untouched
    /\ fe_idx = 0
    /\ fe_len = <<>>

Next ==
    \/ Train
    \/ Eval
    \/ \E info \in FileInfos(MaxFwdBatch) \ {<<>>} : Forward(info)
    \/ ComputeEmbedding
    \/ ComputeScore
    \/ TrainingReturn
    \/ InferenceReturn
    \/ \E tgt \in UNION {TargetArgs(n) : n \in 1..(MaxFwdBatch * MaxMembers)} :
         LossCompute(tgt)

Spec == Init /\ [][Next]_vars

\* a direct call of _front_end for member fe_idx on a batch with the raw
\* lengths fe_len
InitFrame ==
    /\ \E n \in 1..MaxMembers : Constructed(HopsOf(n), <<>>, 1, 1, None)
    /\ Untouched
    /\ fe_idx \in 0..(v_submodels - 1)
    /\ fe_len \in LengthLists(MaxBatch) \ {<<>>}

NextFrame == FrontEndCall

SpecFrame == InitFrame /\ [][NextFrame]_vars

\* calls of the normalization layer
InitNorm ==
    /\ \E in_dim \in 1..MaxDim, out_dim \in 1..MaxDim,
          ms \in {None} \cup (StatVecs(0..1) \X StatVecs(1..2)
                              \X StatVecs(0..1) \X StatVecs(1..2)) :
         Constructed(HopsOf(1), <<>>, in_dim, out_dim, ms)
    /\ Untouched
    /\ fe_idx = 0
    /\ fe_len = <<>>

NextNorm ==
    \/ \E x \in Tensors(Len(input_mean)) : NormalizeInputCall(x)
    \/ \E y \in Tensors(Len(output_mean)) : NormalizeTargetCall(y)
    \/ \E y \in Tensors(Len(output_mean)) : DenormalizeOutputCall(y)

SpecNorm == InitNorm /\ [][NextNorm]_vars

\* ------------------------------------------------------------------------
\* Properties
\* ------------------------------------------------------------------------
\* true_frame_count of row b in the last direct _front_end call
FeFrames(b) == fe_len[b] \div frame_hops[fe_idx + 1]

\* truncation_length of the member of the last direct _front_end call
FeTrunc == TruncSamples \div frame_hops[fe_idx + 1]

\* C1: in _front_end, every row with true_frame_count > truncation_length
\* comes out as exactly truncation_length consecutive frames of that row's
\* feature map, starting at some pos with
\* 0 <= pos <= true_frame_count - truncation_length.
C1_CropIsWindowInRange ==
    pc = "framed" =>
        \A b \in 1..Len(fe_len) :
            FeFrames(b) > FeTrunc =>
                /\ Len(x_sp_amp_buff[b]) = FeTrunc
                /\ \E pos \in 0..(FeFrames(b) - FeTrunc) :
                     \A k \in 1..FeTrunc :
                        x_sp_amp_buff[b][k] = [utt |-> b, t |-> pos + k - 1]

\* a long row was cropped at a nonzero offset
C1_Witness ==
    /\ pc = "framed"
    /\ \E b \in 1..Len(fe_len) :
         /\ FeFrames(b) > FeTrunc
         /\ x_sp_amp_buff[b][1].t > 0

\* C2: in _front_end, every row with 0 < true_frame_count <= truncation_length
\* comes out with exactly truncation_length frames, output frame k being
\* extracted frame k mod true_frame_count: periodic tiling, no zero frame.
C2_ShortRowIsTiled ==
    pc = "framed" =>
        \A b \in 1..Len(fe_len) :
            (0 < FeFrames(b) /\ FeFrames(b) <= FeTrunc) =>
                /\ Len(x_sp_amp_buff[b]) = FeTrunc
                /\ \A k \in 0..(FeTrunc - 1) :
                     x_sp_amp_buff[b][k + 1] = [utt |-> b, t |-> k % FeFrames(b)]

\* a short row was tiled and the last repetition was cut
C2_Witness ==
    /\ pc = "framed"
    /\ \E b \in 1..Len(fe_len) :
         /\ 1 < FeFrames(b)
         /\ FeFrames(b) < FeTrunc
         /\ FeTrunc % FeFrames(b) # 0

\* C3: a row with true_frame_count = 0 is rejected by an input validation;
\* no forward pass reaches the division trunc_len / true_frame_num with a
\* zero divisor.
C3_NoZeroDivision == pc # "ZeroDivisionError"

\* batch size and ensemble size of the current forward pass
B == Len(fileinfo)

N == Len(frame_hops)

\* _compute_embedding has returned in the current pass
Embedded == pc \in {"score", "target", "returned", "trained", "exited"}

\* _compute_score has returned in the current pass
Scored == pc \in {"target", "returned", "trained", "exited"}

\* C4: _compute_embedding returns B*N rows and _compute_score two buffers of
\* B*N rows; row i*B + b of the embedding buffer is member i's backbone
\* output for utterance b, and row i*B + b of both score buffers is member
\* i's projection of that embedding row.
C4_StackedLayout ==
    /\ Embedded =>
         /\ Len(feature_vec) = B * N
         /\ \A i \in 0..(N - 1), b \in 1..B :
              LET e == feature_vec[i * B + b]
              IN  /\ e.member = i
                  /\ Len(e.input) = TruncSamples \div frame_hops[i + 1]
                  /\ \A k \in 1..Len(e.input) : e.input[k].utt = b
    /\ Scored =>
         /\ Len(a_softmax_act) = 2
         /\ \A o \in 1..2 :
              /\ Len(a_softmax_act[o]) = B * N
              /\ \A i \in 0..(N - 1), b \in 1..B :
                   LET r == a_softmax_act[o][i * B + b]
                   IN  /\ r.member = i
                       /\ r.out = o
                       /\ r.emb = feature_vec[i * B + b]

\* two members have scored a batch of two utterances
C4_Witness == Scored /\ B = 2 /\ N = 2

\* C5: a training pass returns a target vector of length B*N whose entry
\* i*B + b is the protocol label of utterance b, the utterance whose score
\* sits in row i*B + b of the score buffers.
C5_TargetsReplicatedPerMember ==
    (pc \in {"returned", "trained"} /\ outputs # NoOutputs) =>
        /\ Len(outputs[2]) = B * N
        /\ \A i \in 0..(N - 1), b \in 1..B :
             /\ outputs[2][i * B + b] = protocol_parser[fileinfo[b].name]
             /\ \A k \in 1..Len(outputs[1][1][i * B + b].emb.input) :
                  outputs[1][1][i * B + b].emb.input[k].utt = b

\* a training pass of two members returned for two utterances with
\* different labels
C5_Witness ==
    /\ pc = "returned"
    /\ outputs # NoOutputs
    /\ B = 2
    /\ N = 2
    /\ target[1] # target[2]

\* C6: an inference pass over B utterances emits, for every utterance b, one
\* line with utterance b's file name, its label and the mean of only that
\* utterance's N cosine values (rows i*B + b).
C6_OneLinePerUtterance ==
    (pc = "returned" /\ outputs = NoOutputs) =>
        /\ Len(stdout) = B
        /\ \A b \in 1..B :
             stdout[b] = [kind |-> "Output",
                          filename |-> fileinfo[b].name,
                          label |-> protocol_parser[fileinfo[b].name],
                          score |-> [n |-> N,
                                     terms |-> {a_softmax_act[1][i * B + b] :
                                                   i \in 0..(N - 1)}]]

\* C7: without normalization statistics the normalization calls are the
\* identity and never divide by a zero standard deviation.
C7_NeutralNormalization ==
    (mean_std = None /\ norm_op # "none") =>
        \A k \in 1..Len(norm_out) :
            /\ norm_out[k].den # 0
            /\ norm_out[k].num = norm_arg[k] * norm_out[k].den

\* the file names of the current pass and those the protocol listing holds
PassNames == Filenames(fileinfo)

ListedNames == {protocol_file[k][2] : k \in 1..Len(protocol_file)}

\* the label string of the last row of the listing for file name n
ListedLabel(n) ==
    LET last == CHOOSE k \in 1..Len(protocol_file) :
                    /\ protocol_file[k][2] = n
                    /\ \A j \in (k + 1)..Len(protocol_file) : protocol_file[j][2] # n
    IN  protocol_file[last][Len(protocol_file[last])]

SomeNameMissing == \E k \in 1..Len(PassNames) : PassNames[k] \notin ListedNames

TargetCalled == Len(calls) >= 3

\* C8: in either mode a pass with a file name absent from the protocol table
\* never returns outputs, never holds a label list and never emits a score
\* line, and its target lookup ends it in the fatal missing-target exit; with
\* every name present the lookup yields the labels in file-name order,
\* 'bonafide' as 1 and any other label string as 0.
C8_MissingTargetIsFatal ==
    /\ SomeNameMissing =>
         /\ pc \notin {"returned", "trained"}
         /\ outputs = NoOutputs
         /\ target = <<>>
         /\ \A k \in 1..Len(stdout) : stdout[k].kind # "Output"
         /\ TargetCalled =>
              /\ pc = "exited"
              /\ stdout = <<ErrorLine(PassNames)>>
    /\ (~SomeNameMissing /\ TargetCalled) =>
         /\ pc \in {"returned", "trained"}
         /\ target = [k \in 1..B |->
                        IF ListedLabel(PassNames[k]) = "bonafide" THEN 1 ELSE 0]

\* an inference pass over a listed and an unlisted file name ended in the
\* fatal exit
C8_Witness ==
    /\ pc = "exited"
    /\ ~training
    /\ B = 2
    /\ PassNames[1] \in ListedNames
    /\ PassNames[2] \notin ListedNames

\* the flags handed to the angular projections in the current pass
AnglesPassed ==
    {a_softmax_act[o][k].angle : o \in 1..2, k \in 1..Len(a_softmax_act[1])}

\* C9: every pass calls _compute_embedding, then _compute_score, then
\* _get_target, and the flag handed to every member's projection is False in
\* a training pass and True in an inference pass, whatever mode switches
\* came before the pass.
C9_OrderAndAngleFlag ==
    /\ calls = SubSeq(<<"_compute_embedding", "_compute_score", "_get_target">>,
                      1, Len(calls))
    /\ (pc \in {"target", "exited"}) => AnglesPassed = {~training}
    /\ (pc \in {"returned", "trained"}) => AnglesPassed = {outputs = NoOutputs}

\* an inference pass, entered after a switch to evaluation mode, has scored
\* two members
C9_Witness ==
    /\ pc = "target"
    /\ ~training
    /\ N = 2
    /\ AnglesPassed = {TRUE}

\* C10 as stated: compute evaluates the loss against its target argument.
C10_LossUsesTargetArgument ==
    pc = "trained" => loss = [scores |-> outputs[1], labels |-> loss_target]

\* C10: compute(outputs, target) is the external loss of outputs[0], the
\* score pair, and outputs[1], the replicated targets forward returned; the
\* target argument is not read.
C10_LossUsesForwardTargets ==
    pc = "trained" =>
        /\ loss.scores = a_softmax_act
        /\ loss.labels = outputs[2]
        /\ \A i \in 0..(N - 1), b \in 1..B :
             loss.labels[i * B + b] = protocol_parser[fileinfo[b].name]

\* the loss was computed with a target argument that differs from the
\* targets forward returned
C10_Witness ==
    /\ pc = "trained"
    /\ Len(loss_target) = Len(outputs[2])
    /\ loss_target # outputs[2]

=============================================================================
